---- MODULE Spec2Model ----
(***************************************************************************)
(* Model of src/app/sagas/AISaga.ts: AIMasterSaga (the supervisor of the   *)
(* AI players), AIWorkerSaga (one session per AI player, owning a Worker)  *)
(* and handleCommands (the command interpreter with its providers).        *)
(*                                                                         *)
(* Player names `AI-<n>` are modelled by the number n.  A Task returned    *)
(* by `spawn` is modelled by its index in the sequence `tasks`.            *)
(*                                                                         *)
(* Every handler runs to its next `take` in one step: the sagas are        *)
(* scheduled cooperatively and task.cancel() runs the `finally` of the     *)
(* cancelled saga synchronously.                                           *)
(*                                                                         *)
(* Spec is the supervision: the lifecycle events handled by AIMasterSaga,  *)
(* with the commands that end a session and the notes of the bullet        *)
(* watcher.  SpecSession is one session after the first LOAD_STAGE: the    *)
(* movement and fire commands and the polls of the two providers.          *)
(*                                                                         *)
(* The store (players, tanks, the pool), the controllers that poll the     *)
(* providers and the selectors are not in AISaga.ts; they are modelled     *)
(* from what AISaga.ts reads and writes of them.                           *)
(***************************************************************************)
EXTENDS Integers, Sequences, FiniteSets, TLC

\* ---- bounds of the model ----
\* identities allocated in one run of AIMasterSaga
MaxAI == 2
\* tank coordinates range over 0..MaxCoord
MaxCoord == 2
\* forwardLength of a forward command ranges over 1..MaxForward
MaxForward == 2
\* notes put on the noteChannel of one session
MaxNotes == 2
\* notes put on all noteChannels together, in the specification of the supervision
MaxSupNotes == 1
\* bullets in one DESTROY_BULLETS batch
MaxBatch == 2
\* bulletLimit of a tank, and its bullets in flight
MaxBulletLimit == 2
MaxQueryNotes == 1

\* ---- program constants ----
\* AISaga.ts:178
max == 1
\* AISaga.ts:219
ArmorHp == 4
OtherHp == 1

Directions == {"up", "down", "left", "right"}
Levels == {"basic", "armor"}
Queries == {"my-tank", "map", "tanks", "my-fire-info"}
\* the activeTankId of a player without an active tank
NoTank == 0
\* `let startPos: number` before its first assignment
Undef == -1

VARIABLES
    masterPc,           \* AIMasterSaga: "running" | "failed" | "cancelled"
    taskMap,            \* AIMasterSaga.taskMap: playerName -> task
    nextAIPlayerIndex,  \* AIMasterSaga.nextAIPlayerIndex
    tasks,              \* the AIWorkerSaga tasks ever spawned, in spawn order
    remainingEnemies,   \* state.game.remainingEnemies
    players,            \* state.players: playerName -> PlayerRecord
    tanks,              \* state.tanks: tankId -> TankRecord
    nextTankId,         \* id allocator of spawnTank
    activations,        \* number of ACTIVATE_PLAYER actions put
    last                \* if the last step was a poll of a provider: the poll,
                        \* what it returned, and the history it answered

vars == <<masterPc, taskMap, nextAIPlayerIndex, tasks, remainingEnemies,
          players, tanks, nextTankId, activations, last>>

NoIntent == [type |-> "none"]
NoRet == [type |-> "void"]
NoPoll == [op |-> "none", who |-> 0, ret |-> NoRet, hist |-> 0]

\* f with key k bound to v (an object property assignment)
Put(f, k, v) == [i \in DOMAIN f \cup {k} |-> IF i = k THEN v ELSE f[i]]

\* f without key k (`delete f[k]`)
Delete(f, k) == [i \in DOMAIN f \ {k} |-> f[i]]

EmptyMap == [i \in {} |-> 0]

RECURSIVE SeqsUpTo(_, _)
SeqsUpTo(S, n) ==
    IF n = 0 THEN {<<>>}
    ELSE LET shorter == SeqsUpTo(S, n - 1)
         IN shorter \cup {Append(q, e) : q \in {r \in shorter : Len(r) = n - 1}, e \in S}

\* ---- game state accessors ----

\* selectors.playerTank(state, playerName): the active tank of the player, or null
HasTank(pl, tk, playerName) ==
    /\ playerName \in DOMAIN pl
    /\ pl[playerName].activeTankId # NoTank
    /\ pl[playerName].activeTankId \in DOMAIN tk

playerTank(pl, tk, playerName) == tk[pl[playerName].activeTankId]

\* getDirectionInfo(direction).xy: the axis the tank faces along
getDirectionInfoXy(direction) == IF direction \in {"left", "right"} THEN "x" ELSE "y"

\* tank.get(xy)
TankGet(tank, xy) == IF xy = "x" THEN tank.x ELSE tank.y

Abs(n) == IF n < 0 THEN -n ELSE n

\* ---- AIWorkerSaga ----

\* The session just after `spawn(AIWorkerSaga, playerName, AIWorker)`: the
\* Worker is constructed, both channels exist, handleCommands waits for its
\* first command with its locals at their initial values.
AIWorkerSaga(playerName) ==
    [ playerName |-> playerName,
      status |-> "running",
      worker |-> "live",
      terminateCalls |-> 0,
      fire |-> FALSE,
      nextDirection |-> "null",
      forwardLength |-> 0,
      startPos |-> Undef,
      noteChannel |-> <<>>,
      emitted |-> 0,
      posted |-> <<>>,
      \* history: 1 when a turn command was handled while a forward was in
      \* progress, and neither a poll of getAIInput nor a forward command since
      turnInForward |-> 0,
      \* history: the fire commands handled since the last poll of the fire
      \* callback (2 stands for two or more)
      fires |-> 0 ]

\* AIWorkerSaga without its try/finally: nothing runs when the session ends early
FinallySkipped(t) ==
    [t EXCEPT !.fire = FALSE, !.nextDirection = "null",
              !.forwardLength = 0, !.startPos = Undef,
              !.turnInForward = 0, !.fires = 0]

\* The `finally` block of AIWorkerSaga: worker.terminate().  The generators
\* of the session have returned: the locals of handleCommands are gone.
Finally(t) ==
    [t EXCEPT !.worker = "terminated", !.terminateCalls = @ + 1,
              !.fire = FALSE, !.nextDirection = "null",
              !.forwardLength = 0, !.startPos = Undef,
              !.turnInForward = 0, !.fires = 0]

\* task.cancel(): a no-op on a task that is no longer running; otherwise the
\* `all` effect and every forked sub-task are cancelled and `finally` runs.
Cancel(t) ==
    IF t.status = "running" THEN Finally([t EXCEPT !.status = "cancelled"]) ELSE t

\* An error thrown inside handleCommands: the `all` effect rejects, sendNotes
\* is cancelled, `finally` runs and the (detached) task ends aborted.
Abort(t) == Finally([t EXCEPT !.status = "aborted"])

\* ---- AIMasterSaga ----

\* addAI() without `put({ type: 'REMOVE_FIRST_REMAINING_ENEMY' })`
addAIKeepPool(st, spawnAt) ==
    IF st.remainingEnemies # <<>> THEN
        LET playerName == st.nextAIPlayerIndex
            level == Head(st.remainingEnemies)
            hp == IF level = "armor" THEN ArmorHp ELSE OtherHp
            tankId == st.nextTankId
            task == Len(st.tasks) + 1
        IN [ st EXCEPT
               !.nextAIPlayerIndex = @ + 1,
               !.players = Put(@, playerName,
                               [side |-> "ai", activeTankId |-> tankId]),
               !.tanks = Put(@, tankId,
                             [tankId |-> tankId, x |-> spawnAt.x, y |-> spawnAt.y,
                              side |-> "ai", level |-> level, hp |-> hp,
                              direction |-> "up"]),
               !.nextTankId = @ + 1,
               !.tasks = Append(@, AIWorkerSaga(playerName)),
               !.taskMap = Put(@, playerName, task),
               !.activations = @ + 1 ]
    ELSE st

\* addAI(), as a function of the state it reads and writes.  `spawnAt` is the
\* result of selectors.availableSpawnPosition.
addAI(st, spawnAt) ==
    IF st.remainingEnemies # <<>> THEN
        LET playerName == st.nextAIPlayerIndex
            level == Head(st.remainingEnemies)
            hp == IF level = "armor" THEN ArmorHp ELSE OtherHp
            tankId == st.nextTankId
            task == Len(st.tasks) + 1
        IN [ st EXCEPT
               !.nextAIPlayerIndex = @ + 1,
               \* CREATE_PLAYER, and ACTIVATE_PLAYER at the end
               !.players = Put(@, playerName,
                               [side |-> "ai", activeTankId |-> tankId]),
               !.remainingEnemies = Tail(@),
               !.tanks = Put(@, tankId,
                             [tankId |-> tankId, x |-> spawnAt.x, y |-> spawnAt.y,
                              side |-> "ai", level |-> level, hp |-> hp,
                              direction |-> "up"]),
               !.nextTankId = @ + 1,
               !.tasks = Append(@, AIWorkerSaga(playerName)),
               !.taskMap = Put(@, playerName, task),
               !.activations = @ + 1 ]
    ELSE st

\* the loop with `i <= max` for `i < max`
RECURSIVE addAITimesInclusive(_, _, _)
addAITimesInclusive(st, spawnAt, n) ==
    IF n < 0 THEN st ELSE addAITimesInclusive(addAI(st, spawnAt), spawnAt, n - 1)

\* `for (let i = 0; i < max; i += 1) { yield* addAI() }`
RECURSIVE addAITimes(_, _, _)
addAITimes(st, spawnAt, n) ==
    IF n = 0 THEN st ELSE addAITimes(addAI(st, spawnAt), spawnAt, n - 1)

\* the GAMEOVER branch that also starts the names again at AI-0
CancelAllResetIndex(st) ==
    [ st EXCEPT
        !.tasks = [i \in DOMAIN @ |->
                     IF \E p \in DOMAIN st.taskMap : st.taskMap[p] = i
                     THEN Cancel(@[i]) ELSE @[i]],
        !.taskMap = EmptyMap,
        !.nextAIPlayerIndex = 0 ]

\* `for (const [playerName, task] of Object.entries(taskMap))
\*      { task.cancel(); delete taskMap[playerName] }`
CancelAll(st) ==
    [ st EXCEPT
        !.tasks = [i \in DOMAIN @ |->
                     IF \E p \in DOMAIN st.taskMap : st.taskMap[p] = i
                     THEN Cancel(@[i]) ELSE @[i]],
        !.taskMap = EmptyMap ]

\* the KILL branch without `delete taskMap[...]`
CancelOneKeepEntry(st, playerName) ==
    [ st EXCEPT !.tasks = [@ EXCEPT ![st.taskMap[playerName]] = Cancel(@)] ]

\* `task.cancel(); delete taskMap[playerName]` for a registered playerName
CancelOne(st, playerName) ==
    [ st EXCEPT
        !.tasks = [@ EXCEPT ![st.taskMap[playerName]] = Cancel(@)],
        !.taskMap = Delete(@, playerName) ]

\* the state AIMasterSaga and addAI read and write
Cur ==
    [ taskMap |-> taskMap, nextAIPlayerIndex |-> nextAIPlayerIndex,
      tasks |-> tasks, remainingEnemies |-> remainingEnemies,
      players |-> players, tanks |-> tanks, nextTankId |-> nextTankId,
      activations |-> activations ]

Install(st) ==
    /\ taskMap' = st.taskMap
    /\ nextAIPlayerIndex' = st.nextAIPlayerIndex
    /\ tasks' = st.tasks
    /\ remainingEnemies' = st.remainingEnemies
    /\ players' = st.players
    /\ tanks' = st.tanks
    /\ nextTankId' = st.nextTankId
    /\ activations' = st.activations

SpawnPositions == {[x |-> 0, y |-> MaxCoord]}

Init ==
    /\ masterPc = "running"
    /\ taskMap = EmptyMap
    /\ nextAIPlayerIndex = 0
    /\ tasks = <<>>
    /\ remainingEnemies = <<>>
    /\ players = EmptyMap
    /\ tanks = EmptyMap
    /\ nextTankId = 1
    /\ activations = 0
    /\ last = NoPoll

\* LOAD_STAGE: the stage's enemies become the remaining-enemies pool (the
\* game reducer), then AIMasterSaga calls addAI `max` times.
LoadStage(pool, spawnAt) ==
    /\ LET loaded == [Cur EXCEPT !.remainingEnemies = pool]
           after == IF masterPc = "running"
                    THEN addAITimes(loaded, spawnAt, max) ELSE loaded
       IN /\ after.nextAIPlayerIndex <= MaxAI
          /\ Install(after)
    /\ last' = NoPoll
    /\ UNCHANGED masterPc

\* the store without the killed tank
RemoveTank(st, playerName) ==
    [ st EXCEPT
        !.tanks = Delete(@, st.players[playerName].activeTankId),
        !.players = [@ EXCEPT ![playerName].activeTankId = NoTank] ]

\* KILL with targetTank.side === 'ai': the tank of playerName was destroyed.
\* `taskMap[playerName]` of an unregistered name is undefined and
\* `task.cancel()` then throws, which ends AIMasterSaga.
KillAI(playerName, spawnAt) ==
    /\ HasTank(players, tanks, playerName)
    /\ LET removed == RemoveTank(Cur, playerName)
       IN IF masterPc # "running"
          THEN Install(removed) /\ UNCHANGED masterPc
          ELSE IF playerName \in DOMAIN taskMap
          THEN LET after == addAI(CancelOne(removed, playerName), spawnAt)
               IN /\ after.nextAIPlayerIndex <= MaxAI
                  /\ Install(after)
                  /\ UNCHANGED masterPc
          ELSE /\ Install(removed)
               /\ masterPc' = "failed"
    /\ last' = NoPoll

\* KILL with targetTank.side !== 'ai': no branch of AIMasterSaga applies
KillHuman ==
    /\ last' = NoPoll
    /\ UNCHANGED <<masterPc, taskMap, nextAIPlayerIndex, tasks, remainingEnemies,
                   players, tanks, nextTankId, activations>>

\* GAMEOVER
GameOver ==
    /\ IF masterPc = "running" THEN Install(CancelAll(Cur)) ELSE Install(Cur)
    /\ last' = NoPoll
    /\ UNCHANGED masterPc

\* AIMasterSaga itself is cancelled (its parent is cancelled or fails).  The
\* sessions were started with `spawn`, so they are detached from it.
CancelMaster ==
    /\ masterPc = "running"
    /\ masterPc' = "cancelled"
    /\ last' = NoPoll
    /\ UNCHANGED <<taskMap, nextAIPlayerIndex, tasks, remainingEnemies,
                   players, tanks, nextTankId, activations>>

\* ---- handleCommands ----

\* noteChannel.put(note)
PutNote(t, note) ==
    [t EXCEPT !.noteChannel = Append(@, note), !.emitted = @ + 1]

Commands ==
    [type : {"forward"}, forwardLength : 1..MaxForward]
    \cup [type : {"fire"}]
    \cup [type : {"turn"}, direction : Directions]
    \cup [type : {"query"}, query : Queries \cup {"other"}]
    \cup [type : {"bogus"}]

\* the tanks a bullet may belong to: the first tank spawned and another one
BulletOwners == 1..2

\* what `select()` reads of the store besides players and tanks
StoreReads(tk) ==
    [cooldown : -1..1,
     bullets : SeqsUpTo(BulletOwners, MaxBulletLimit),
     bulletLimit : 1..MaxBulletLimit]

\* a count of all the bullets in flight, whoever fired them
CountBulletsOfAll(bullets, tankId) == Len(bullets)

\* bullets.filter(b => b.tankId === tankId).count()
CountBullets(bullets, tankId) ==
    Cardinality({i \in DOMAIN bullets : bullets[i] = tankId})

\* One iteration of the `while (true)` loop of handleCommands.  `present` and
\* `tank` are the result of select(selectors.playerTank, playerName); `store`
\* is the rest of the state read by a query.
handleCommand(t, present, tank, tk, store, command) ==
    IF command.type = "forward" THEN
        IF ~present THEN t
        ELSE [t EXCEPT !.startPos = TankGet(tank, getDirectionInfoXy(tank.direction)),
                       !.forwardLength = command.forwardLength]
    ELSE IF command.type = "fire" THEN [t EXCEPT !.fire = TRUE]
    ELSE IF command.type = "turn" THEN [t EXCEPT !.nextDirection = command.direction]
    ELSE IF command.type = "query" THEN
        IF command.query = "my-tank" THEN
            PutNote(t, [type |-> "query-result",
                        result |-> [type |-> "my-tank-info",
                                    tank |-> IF present THEN tank ELSE [tankId |-> NoTank]]])
        ELSE IF command.query = "map" THEN
            PutNote(t, [type |-> "query-result", result |-> [type |-> "map-info"]])
        ELSE IF command.query = "tanks" THEN
            PutNote(t, [type |-> "query-result",
                        result |-> [type |-> "tanks-info", tanks |-> tk]])
        ELSE IF command.query = "my-fire-info" THEN
            \* console.assert does not throw; `tank.tankId` of null does
            IF ~present THEN Abort(t)
            ELSE LET cooldown == store.cooldown
                     bulletCount == CountBullets(store.bullets, tank.tankId)
                     canFire == bulletCount < store.bulletLimit /\ cooldown <= 0
                 IN PutNote(t, [type |-> "query-result",
                                result |-> [type |-> "my-fire-info",
                                            bulletCount |-> bulletCount,
                                            canFire |-> canFire,
                                            cooldown |-> cooldown,
                                            bulletLimit |-> store.bulletLimit]])
        ELSE t
    ELSE Abort(t)

\* getAIInput() that reports `reach` without `forwardLength = 0`
getAIInputKeepLength(t, present, tank) ==
    IF ~present THEN [t |-> t, ret |-> NoIntent]
    ELSE IF t.nextDirection # "null" /\ tank.direction # t.nextDirection THEN
        [t |-> [t EXCEPT !.nextDirection = "null", !.forwardLength = 0],
         ret |-> [type |-> "turn", direction |-> t.nextDirection]]
    ELSE IF t.forwardLength > 0 THEN
        LET xy == getDirectionInfoXy(tank.direction)
            movedLength == Abs(TankGet(tank, xy) - t.startPos)
            maxDistance == t.forwardLength - movedLength
        IN IF movedLength = t.forwardLength
           THEN [t |-> PutNote(t, [type |-> "reach"]), ret |-> NoIntent]
           ELSE [t |-> t, ret |-> [type |-> "forward", maxDistance |-> maxDistance]]
    ELSE [t |-> t, ret |-> NoIntent]

\* getAIInput() whose turn branch keeps the forward (the `fixme` resolved)
getAIInputKeepForward(t, present, tank) ==
    IF ~present THEN [t |-> t, ret |-> NoIntent]
    ELSE IF t.nextDirection # "null" /\ tank.direction # t.nextDirection THEN
        [t |-> [t EXCEPT !.nextDirection = "null"],
         ret |-> [type |-> "turn", direction |-> t.nextDirection]]
    ELSE IF t.forwardLength > 0 THEN
        LET xy == getDirectionInfoXy(tank.direction)
            movedLength == Abs(TankGet(tank, xy) - t.startPos)
            maxDistance == t.forwardLength - movedLength
        IN IF movedLength = t.forwardLength
           THEN [t |-> PutNote([t EXCEPT !.forwardLength = 0], [type |-> "reach"]),
                 ret |-> NoIntent]
           ELSE [t |-> t, ret |-> [type |-> "forward", maxDistance |-> maxDistance]]
    ELSE [t |-> t, ret |-> NoIntent]

\* getAIInput() whose turn branch leaves the direction pending
getAIInputKeepPending(t, present, tank) ==
    IF ~present THEN [t |-> t, ret |-> NoIntent]
    ELSE IF t.nextDirection # "null" /\ tank.direction # t.nextDirection THEN
        [t |-> [t EXCEPT !.forwardLength = 0],
         ret |-> [type |-> "turn", direction |-> t.nextDirection]]
    ELSE IF t.forwardLength > 0 THEN
        LET xy == getDirectionInfoXy(tank.direction)
            movedLength == Abs(TankGet(tank, xy) - t.startPos)
            maxDistance == t.forwardLength - movedLength
        IN IF movedLength = t.forwardLength
           THEN [t |-> PutNote([t EXCEPT !.forwardLength = 0], [type |-> "reach"]),
                 ret |-> NoIntent]
           ELSE [t |-> t, ret |-> [type |-> "forward", maxDistance |-> maxDistance]]
    ELSE [t |-> t, ret |-> NoIntent]

\* getAIInput(): the new locals of handleCommands and the returned intent
getAIInput(t, present, tank) ==
    IF ~present THEN [t |-> t, ret |-> NoIntent]
    ELSE IF t.nextDirection # "null" /\ tank.direction # t.nextDirection THEN
        [t |-> [t EXCEPT !.nextDirection = "null", !.forwardLength = 0],
         ret |-> [type |-> "turn", direction |-> t.nextDirection]]
    ELSE IF t.forwardLength > 0 THEN
        LET xy == getDirectionInfoXy(tank.direction)
            movedLength == Abs(TankGet(tank, xy) - t.startPos)
            maxDistance == t.forwardLength - movedLength
        IN IF movedLength = t.forwardLength
           THEN [t |-> PutNote([t EXCEPT !.forwardLength = 0], [type |-> "reach"]),
                 ret |-> NoIntent]
           ELSE [t |-> t, ret |-> [type |-> "forward", maxDistance |-> maxDistance]]
    ELSE [t |-> t, ret |-> NoIntent]

\* the callback without `fire = false`
getFireLevel(t) == [t |-> t, ret |-> t.fire]

\* the callback given to fireController
getFire(t) ==
    IF t.fire THEN [t |-> [t EXCEPT !.fire = FALSE], ret |-> TRUE]
    ELSE [t |-> t, ret |-> FALSE]

\* the watcher with `bullets.forEach` for `bullets.some`: a note per bullet
notifyPerBullet(t, present, tank, bullets) ==
    IF present
    THEN LET n == Cardinality({i \in DOMAIN bullets : bullets[i] = tank.tankId})
         IN [t EXCEPT !.noteChannel = @ \o [i \in 1..n |-> [type |-> "bullet-complete"]],
                      !.emitted = @ + n]
    ELSE t

\* one DESTROY_BULLETS action as seen by notifyWhenBulletComplete
notifyWhenBulletComplete(t, present, tank, bullets) ==
    IF present /\ (\E i \in DOMAIN bullets : bullets[i] = tank.tankId)
    THEN PutNote(t, [type |-> "bullet-complete"])
    ELSE t

\* ---- the collaborators that poll the providers ----

\* the tank after directionController has carried out the intent, moving
\* `step` along the facing direction for a forward intent
Moved(tank, step) ==
    IF tank.direction = "up" THEN [tank EXCEPT !.y = @ - step]
    ELSE IF tank.direction = "down" THEN [tank EXCEPT !.y = @ + step]
    ELSE IF tank.direction = "left" THEN [tank EXCEPT !.x = @ - step]
    ELSE [tank EXCEPT !.x = @ + step]

InField(tank) == tank.x \in 0..MaxCoord /\ tank.y \in 0..MaxCoord

directionController(tank, intent, step) ==
    IF intent.type = "turn" THEN [tank EXCEPT !.direction = intent.direction]
    ELSE IF intent.type = "forward" THEN Moved(tank, step)
    ELSE tank

\* ---- steps of one running session ----

Min(a, b) == IF a < b THEN a ELSE b

\* the distance the tank has moved from startPos along its facing axis
MovedLength(t, tank) ==
    Abs(TankGet(tank, getDirectionInfoXy(tank.direction)) - t.startPos)

\* a forward command is being carried out and has not reached its length
ForwardInProgress(t, present, tank) ==
    /\ present
    /\ t.forwardLength > 0
    /\ MovedLength(t, tank) < t.forwardLength

\* the history fields of session `after`, which was `before` when it handled `command`
Recorded(before, after, present, tank, command) ==
    IF after.status # "running" THEN after
    ELSE IF command.type = "turn" /\ ForwardInProgress(before, present, tank)
    THEN [after EXCEPT !.turnInForward = 1]
    ELSE IF command.type = "forward" /\ present
    THEN [after EXCEPT !.turnInForward = 0]
    ELSE IF command.type = "fire"
    THEN [after EXCEPT !.fires = Min(@ + 1, 2)]
    ELSE after

Running(s) == s \in DOMAIN tasks /\ tasks[s].status = "running"

Present(s) == HasTank(players, tanks, tasks[s].playerName)

TankOf(s) == playerTank(players, tanks, tasks[s].playerName)

\* a value to stand for the tank where the player has none (never read)
TankOrNone(s) == IF Present(s) THEN TankOf(s) ELSE [tankId |-> NoTank]

SupervisorUnchanged ==
    UNCHANGED <<masterPc, taskMap, nextAIPlayerIndex, remainingEnemies,
                players, nextTankId, activations>>

\* the Worker posts a command; handleCommands takes it off commandChannel.
\* `record` is what the history variable keeps of the step.
HandleCommandAs(s, command, store, record) ==
    /\ Running(s)
    /\ LET t == handleCommand(tasks[s], Present(s), TankOrNone(s), tanks, store, command)
       IN /\ t.emitted <= MaxNotes
          /\ tasks' = [tasks EXCEPT ![s] =
                          Recorded(tasks[s], t, Present(s), TankOrNone(s), command)]
    /\ last' = record
    /\ UNCHANGED tanks
    /\ SupervisorUnchanged

HandleCommand(s, command, store) == HandleCommandAs(s, command, store, NoPoll)

\* the same step, remembered: the command, and in `hist`
\* whether a turn command replaced another pending direction
HandleCommandLogged(s, command, store) ==
    HandleCommandAs(s, command, store,
        [op |-> "command", who |-> s, ret |-> command,
         hist |-> IF /\ command.type = "turn"
                     /\ tasks[s].nextDirection \notin {"null", command.direction}
                  THEN 1 ELSE 0])

\* a tick of directionController: it polls getAIInput and carries out the intent
PollDirection(s, step) ==
    /\ Running(s)
    /\ LET r == getAIInput(tasks[s], Present(s), TankOrNone(s))
       IN /\ r.t.emitted <= MaxNotes
          /\ tasks' = [tasks EXCEPT ![s] = [r.t EXCEPT !.turnInForward = 0]]
          /\ last' = [op |-> "getAIInput", who |-> s, ret |-> r.ret,
                      hist |-> tasks[s].turnInForward]
          /\ IF r.ret.type = "forward"
             THEN /\ step <= r.ret.maxDistance
                  /\ InField(Moved(TankOf(s), step))
             ELSE step = 0
          /\ IF Present(s)
             THEN tanks' = [tanks EXCEPT ![TankOf(s).tankId] =
                                directionController(@, r.ret, step)]
             ELSE UNCHANGED tanks
    /\ SupervisorUnchanged

\* a tick of fireController: it polls the fire callback
PollFire(s) ==
    /\ Running(s)
    /\ LET r == getFire(tasks[s])
       IN /\ tasks' = [tasks EXCEPT ![s] = [r.t EXCEPT !.fires = 0]]
          /\ last' = [op |-> "getFire", who |-> s,
                      ret |-> [type |-> "bool", value |-> r.ret],
                      hist |-> tasks[s].fires]
    /\ UNCHANGED tanks
    /\ SupervisorUnchanged

\* DESTROY_BULLETS is dispatched: every running session's watcher takes it.
\* `record` is what the history variable keeps of the step.
DestroyBulletsAs(bullets, record) ==
    /\ bullets # <<>>
    /\ \E s \in DOMAIN tasks : Running(s)
    /\ LET after == [s \in DOMAIN tasks |->
                       IF tasks[s].status = "running"
                       THEN notifyWhenBulletComplete(tasks[s], Present(s), TankOrNone(s), bullets)
                       ELSE tasks[s]]
       IN /\ \A s \in DOMAIN tasks : after[s].emitted <= MaxNotes
          /\ tasks' = after
    /\ last' = record
    /\ UNCHANGED tanks
    /\ SupervisorUnchanged

DestroyBullets(bullets) == DestroyBulletsAs(bullets, NoPoll)

\* the same step, remembered with its batch
DestroyBulletsLogged(bullets) ==
    DestroyBulletsAs(bullets,
        [op |-> "DESTROY_BULLETS", who |-> 0,
         ret |-> [type |-> "batch", bullets |-> bullets], hist |-> 0])

\* sendNote started with `spawn`: it outlives the session
SendNoteDetached(s) ==
    /\ s \in DOMAIN tasks
    /\ tasks[s].noteChannel # <<>>
    /\ tasks' = [tasks EXCEPT ![s] = [@ EXCEPT !.posted = Append(@, Head(tasks[s].noteChannel)),
                                                !.noteChannel = Tail(@)]]
    /\ last' = NoPoll
    /\ UNCHANGED tanks
    /\ SupervisorUnchanged

\* sendNote that takes the newest note of noteChannel
SendNoteNewestFirst(s) ==
    /\ Running(s)
    /\ tasks[s].noteChannel # <<>>
    /\ LET n == Len(tasks[s].noteChannel)
       IN tasks' = [tasks EXCEPT ![s] =
                       [@ EXCEPT !.posted = Append(@, tasks[s].noteChannel[n]),
                                 !.noteChannel = SubSeq(@, 1, n - 1)]]
    /\ last' = NoPoll
    /\ UNCHANGED tanks
    /\ SupervisorUnchanged

\* sendNote: take a note off noteChannel and post it to the Worker
SendNote(s) ==
    /\ Running(s)
    /\ tasks[s].noteChannel # <<>>
    /\ tasks' = [tasks EXCEPT ![s] = [@ EXCEPT !.posted = Append(@, Head(tasks[s].noteChannel)),
                                                !.noteChannel = Tail(@)]]
    /\ last' = NoPoll
    /\ UNCHANGED tanks
    /\ SupervisorUnchanged

\* the enemies of a stage: none, one, several
Pools == {<<>>, <<"armor">>, <<"basic", "basic">>}

\* ---- the supervision of the sessions ----

\* the commands that end a session, among all Commands
SupervisionCommands == {c \in Commands : c.type = "bogus"}

RECURSIVE TotalEmitted(_)
TotalEmitted(ts) ==
    IF ts = <<>> THEN 0 ELSE Head(ts).emitted + TotalEmitted(Tail(ts))

NoReads == [cooldown |-> 0, bullets |-> <<>>, bulletLimit |-> 1]

Next ==
    \/ \E pool \in Pools, spawnAt \in SpawnPositions : LoadStage(pool, spawnAt)
    \/ \E p \in DOMAIN players, spawnAt \in SpawnPositions : KillAI(p, spawnAt)
    \/ KillHuman
    \/ GameOver
    \/ CancelMaster
    \/ \E s \in DOMAIN tasks, command \in SupervisionCommands :
          HandleCommand(s, command, NoReads)
    \/ \E bullets \in SeqsUpTo(DOMAIN tanks, MaxBatch) :
          /\ DestroyBullets(bullets)
          /\ TotalEmitted(tasks') <= MaxSupNotes
    \/ \E s \in DOMAIN tasks : SendNote(s)

Spec == Init /\ [][Next]_vars

\* ---- one session: the movement and fire commands and the providers ----

MoveCommands == {c \in Commands : c.type \in {"forward", "fire", "turn", "bogus"}}

\* the state after the first LOAD_STAGE, of a stage with one enemy
InitSession ==
    /\ masterPc = "running"
    /\ \E spawnAt \in SpawnPositions :
         LET st == addAITimes([ taskMap |-> EmptyMap, nextAIPlayerIndex |-> 0,
                                tasks |-> <<>>, remainingEnemies |-> <<"basic">>,
                                players |-> EmptyMap, tanks |-> EmptyMap,
                                nextTankId |-> 1, activations |-> 0 ], spawnAt, max)
         IN /\ taskMap = st.taskMap
            /\ nextAIPlayerIndex = st.nextAIPlayerIndex
            /\ tasks = st.tasks
            /\ remainingEnemies = st.remainingEnemies
            /\ players = st.players
            /\ tanks = st.tanks
            /\ nextTankId = st.nextTankId
            /\ activations = st.activations
    /\ last = NoPoll

NextSession ==
    \/ \E s \in DOMAIN tasks, command \in MoveCommands :
          HandleCommand(s, command, NoReads)
    \/ \E s \in DOMAIN tasks, step \in 0..MaxForward : PollDirection(s, step)
    \/ \E s \in DOMAIN tasks : PollFire(s)
    \/ \E s \in DOMAIN tasks : SendNote(s)
    \/ \E p \in DOMAIN players, spawnAt \in SpawnPositions : KillAI(p, spawnAt)
    \/ GameOver
    \/ CancelMaster

SpecSession == InitSession /\ [][NextSession]_vars

\* ---- one session: the turn commands and the direction provider ----

TurnCommands == {c \in Commands : c.type = "turn"}

NextTurn ==
    \/ \E s \in DOMAIN tasks, command \in TurnCommands :
          HandleCommandLogged(s, command, NoReads)
    \/ \E s \in DOMAIN tasks : PollDirection(s, 0)
    \/ \E p \in DOMAIN players, spawnAt \in SpawnPositions : KillAI(p, spawnAt)
    \/ CancelMaster

SpecTurn == InitSession /\ [][NextTurn]_vars

\* ---- one session: the queries and the bullet watcher ----

QueryCommands == {c \in Commands : c.type = "query"}

\* the store matters to the my-fire-info query only
QueryReads(command, tk) ==
    IF command.query = "my-fire-info" THEN StoreReads(tk) ELSE {NoReads}

NextQuery ==
    \/ \E s \in DOMAIN tasks, command \in QueryCommands :
          \E store \in QueryReads(command, tanks) :
             /\ HandleCommandLogged(s, command, store)
             /\ TotalEmitted(tasks') <= MaxQueryNotes
    \/ \E bullets \in SeqsUpTo(BulletOwners, MaxBatch) :
          /\ DestroyBullets(bullets)
          /\ TotalEmitted(tasks') <= MaxQueryNotes
    \/ \E s \in DOMAIN tasks : SendNote(s)
    \/ \E p \in DOMAIN players, spawnAt \in SpawnPositions : KillAI(p, spawnAt)
    \/ CancelMaster

SpecQuery == InitSession /\ [][NextQuery]_vars

\* ---- one session: the three sources of notes and sendNote ----

NoteCommands ==
    {c \in Commands : c.type = "forward" \/ (c.type = "query" /\ c.query = "map")}

NextNotes ==
    \/ \E s \in DOMAIN tasks, command \in NoteCommands :
          HandleCommandLogged(s, command, NoReads)
    \/ \E s \in DOMAIN tasks, step \in 0..MaxForward : PollDirection(s, step)
    \/ \E bullets \in SeqsUpTo(BulletOwners, MaxBatch) : DestroyBullets(bullets)
    \/ \E s \in DOMAIN tasks : SendNote(s)
    \/ GameOver

SpecNotes == InitSession /\ [][NextNotes]_vars

\* ---- one session: the bullet watcher beside the commands that set the
\* locals of handleCommands ----

WatcherCommands == {c \in Commands : c.type \in {"forward", "fire", "turn"}}

NextWatcher ==
    \/ \E s \in DOMAIN tasks, command \in WatcherCommands :
          HandleCommand(s, command, NoReads)
    \/ \E bullets \in SeqsUpTo(BulletOwners, MaxBatch) : DestroyBulletsLogged(bullets)
    \/ \E p \in DOMAIN players, spawnAt \in SpawnPositions : KillAI(p, spawnAt)
    \/ CancelMaster

SpecWatcher == InitSession /\ [][NextWatcher]_vars

\* ---- addAI step by step: masterPc tells how far addAI has come ----

\* the name allocated by the addAI in progress, and the tank it spawned
NewPlayerName == nextAIPlayerIndex - 1

NewTankId == nextTankId - 1

\* addAI up to `put({ type: 'CREATE_PLAYER', ... })`
addAICreatePlayer(st) ==
    IF st.remainingEnemies # <<>> THEN
        [ st EXCEPT
            !.nextAIPlayerIndex = @ + 1,
            !.players = Put(@, st.nextAIPlayerIndex,
                            [side |-> "ai", activeTankId |-> NoTank]) ]
    ELSE st

\* AIMasterSaga calls addAI on state st (max = 1: LOAD_STAGE calls it once)
BeginAddAI(st) ==
    /\ st.nextAIPlayerIndex < MaxAI
    /\ Install(addAICreatePlayer(st))
    /\ masterPc' = IF st.remainingEnemies # <<>> THEN "player-created" ELSE "running"
    /\ last' = NoPoll

\* LOAD_STAGE is taken by AIMasterSaga
LoadStageBegin(pool) ==
    /\ masterPc = "running"
    /\ BeginAddAI([Cur EXCEPT !.remainingEnemies = pool])

\* KILL of the tank of a registered AI player is taken by AIMasterSaga
KillBegin(playerName) ==
    /\ masterPc = "running"
    /\ HasTank(players, tanks, playerName)
    /\ playerName \in DOMAIN taskMap
    /\ BeginAddAI(CancelOne(RemoveTank(Cur, playerName), playerName))

\* REMOVE_FIRST_REMAINING_ENEMY and spawnTank
AddAISpawnTank(spawnAt) ==
    /\ masterPc = "player-created"
    /\ LET level == Head(remainingEnemies)
           hp == IF level = "armor" THEN ArmorHp ELSE OtherHp
       IN tanks' = Put(tanks, nextTankId,
                       [tankId |-> nextTankId, x |-> spawnAt.x, y |-> spawnAt.y,
                        side |-> "ai", level |-> level, hp |-> hp,
                        direction |-> "up"])
    /\ remainingEnemies' = Tail(remainingEnemies)
    /\ nextTankId' = nextTankId + 1
    /\ masterPc' = "tank-spawned"
    /\ last' = NoPoll
    /\ UNCHANGED <<taskMap, nextAIPlayerIndex, tasks, players, activations>>

\* addAI that puts ACTIVATE_PLAYER before it spawns the session
AddAISpawnSessionActivated ==
    /\ masterPc = "tank-spawned"
    /\ players' = [players EXCEPT ![NewPlayerName].activeTankId = NewTankId]
    /\ activations' = activations + 1
    /\ masterPc' = "session-started"
    /\ last' = NoPoll
    /\ UNCHANGED <<taskMap, nextAIPlayerIndex, tasks, remainingEnemies, tanks,
                   nextTankId>>

\* `taskMap[playerName] = yield spawn(AIWorkerSaga, playerName, AIWorker)`
AddAISpawnSession ==
    /\ masterPc = "tank-spawned"
    /\ tasks' = Append(tasks, AIWorkerSaga(NewPlayerName))
    /\ taskMap' = Put(taskMap, NewPlayerName, Len(tasks) + 1)
    /\ masterPc' = "session-started"
    /\ last' = NoPoll
    /\ UNCHANGED <<nextAIPlayerIndex, remainingEnemies, players, tanks, nextTankId,
                   activations>>

\* `put({ type: 'ACTIVATE_PLAYER', playerName, tankId })`; addAI returns
AddAIActivate ==
    /\ masterPc = "session-started"
    /\ players' = [players EXCEPT ![NewPlayerName].activeTankId = NewTankId]
    /\ activations' = activations + 1
    /\ masterPc' = "running"
    /\ last' = NoPoll
    /\ UNCHANGED <<taskMap, nextAIPlayerIndex, tasks, remainingEnemies, tanks,
                   nextTankId>>

NextSpawn ==
    \/ \E pool \in Pools : LoadStageBegin(pool)
    \/ \E p \in DOMAIN players : KillBegin(p)
    \/ \E spawnAt \in SpawnPositions : AddAISpawnTank(spawnAt)
    \/ AddAISpawnSession
    \/ AddAIActivate
    \/ \E s \in DOMAIN tasks, command \in TurnCommands :
          HandleCommandLogged(s, command, NoReads)
    \/ \E s \in DOMAIN tasks : PollDirection(s, 0)

SpecSpawn == Init /\ [][NextSpawn]_vars

\* ---- one session: forward commands carried out under fair polling ----

ForwardCommands == {c \in Commands : c.type \in {"forward", "turn"}}

\* The Worker posts a forward or a turn command while no forward is set, so
\* that no command supersedes a forward; a forward is one the tank has the
\* room to carry out along its facing.
PostWhenIdle(s, command) ==
    /\ Running(s)
    /\ Present(s)
    /\ tasks[s].forwardLength = 0
    /\ tasks[s].emitted < MaxNotes
    /\ command.type = "forward" => InField(Moved(TankOf(s), command.forwardLength))
    /\ HandleCommandLogged(s, command, NoReads)

\* a tick of directionController at which the tank advances if the intent
\* is a forward
PollAdvance(s) ==
    \E step \in 0..MaxForward :
        /\ PollDirection(s, step)
        /\ last'.ret.type = "forward" => step > 0

NextForward ==
    \/ \E s \in DOMAIN tasks, command \in ForwardCommands : PostWhenIdle(s, command)
    \/ \E s \in DOMAIN tasks, step \in 0..MaxForward : PollDirection(s, step)

\* directionController polls getAIInput on every tick, and the tank moves
SpecForward ==
    /\ InitSession
    /\ [][NextForward]_vars
    /\ WF_vars(\E s \in 1..max : PollAdvance(s))

\* ==== the claims about the supervision, checked under Spec ====

Registered(i) ==
    /\ tasks[i].playerName \in DOMAIN taskMap
    /\ taskMap[tasks[i].playerName] = i

\* C1: at most one running session per player identity; a cancelled session
\* is no longer in taskMap (its entry goes in the step that cancels it, before
\* addAI registers a replacement); and every running session is still
\* registered under its own name, so that no handle of a session that was
\* not cancelled has been overwritten.
C1_OneSessionPerIdentity ==
    /\ \A i, j \in DOMAIN tasks :
         (/\ tasks[i].status = "running"
          /\ tasks[j].status = "running"
          /\ tasks[i].playerName = tasks[j].playerName) => i = j
    /\ \A i \in DOMAIN tasks : tasks[i].status = "cancelled" => ~Registered(i)
    /\ \A i \in DOMAIN tasks : tasks[i].status = "running" => Registered(i)
    /\ \A p \in DOMAIN taskMap : taskMap[p] \in DOMAIN tasks

\* a session was cancelled by KILL and its replacement runs, registered
C1_Witness ==
    /\ masterPc = "running"
    /\ Len(tasks) = 2
    /\ tasks[1].status = "cancelled"
    /\ players[tasks[1].playerName].activeTankId = NoTank
    /\ tasks[2].status = "running"
    /\ DOMAIN taskMap = {tasks[2].playerName}

\* C2: the Worker of a session is live exactly while the session runs, and
\* once the session has ended, cancelled or aborted by an unrecognized
\* command, terminate() has been called on it exactly once.
C2_TerminatedExactlyOnce ==
    \A i \in DOMAIN tasks :
        IF tasks[i].status = "running"
        THEN tasks[i].worker = "live" /\ tasks[i].terminateCalls = 0
        ELSE tasks[i].worker = "terminated" /\ tasks[i].terminateCalls = 1

\* a session aborted by a command and later cancelled by KILL (its entry is
\* gone from taskMap), and another one cancelled while running
C2_Witness ==
    /\ masterPc = "running"
    /\ \E i \in DOMAIN tasks :
          /\ tasks[i].status = "aborted"
          /\ ~Registered(i)
          /\ tasks[i].terminateCalls = 1
    /\ \E j \in DOMAIN tasks :
          /\ tasks[j].status = "cancelled"
          /\ tasks[j].terminateCalls = 1

\* C3: a KILL of an AI tank whose player is registered leaves that player's
\* session not running and the name out of taskMap, and calls addAI once:
\* with a non-empty pool one new session is registered under another name,
\* taskMap keeps its size and the pool loses one entry; with an empty pool
\* nothing is spawned and taskMap is one smaller.
C3_KillReplacesOne ==
    [][\A p \in DOMAIN players, spawnAt \in SpawnPositions :
         (KillAI(p, spawnAt) /\ masterPc = "running" /\ p \in DOMAIN taskMap) =>
            /\ tasks'[taskMap[p]].status # "running"
            /\ p \notin DOMAIN taskMap'
            /\ IF remainingEnemies # <<>>
               THEN /\ Len(tasks') = Len(tasks) + 1
                    /\ tasks'[Len(tasks')].status = "running"
                    /\ tasks'[Len(tasks')].playerName # p
                    /\ DOMAIN taskMap' =
                         (DOMAIN taskMap \ {p}) \cup {tasks'[Len(tasks')].playerName}
                    /\ taskMap'[tasks'[Len(tasks')].playerName] = Len(tasks')
                    /\ Cardinality(DOMAIN taskMap') = Cardinality(DOMAIN taskMap)
                    /\ Len(remainingEnemies') = Len(remainingEnemies) - 1
               ELSE /\ Len(tasks') = Len(tasks)
                    /\ DOMAIN taskMap' = DOMAIN taskMap \ {p}
                    /\ Cardinality(DOMAIN taskMap') = Cardinality(DOMAIN taskMap) - 1
                    /\ remainingEnemies' = remainingEnemies
                    /\ nextAIPlayerIndex' = nextAIPlayerIndex]_vars

\* LOAD_STAGE of two basic enemies, then KILL of AI-0: AI-1 took the last
\* enemy of the pool
C3_Witness ==
    /\ masterPc = "running"
    /\ Len(tasks) = 2
    /\ tasks[1].status = "cancelled"
    /\ players[tasks[1].playerName].activeTankId = NoTank
    /\ tasks[2].status = "running"
    /\ Registered(2)
    /\ Cardinality(DOMAIN taskMap) = 1
    /\ remainingEnemies = <<>>
    /\ HasTank(players, tanks, tasks[2].playerName)
    /\ playerTank(players, tanks, tasks[2].playerName).level = "basic"

\* C4: a GAMEOVER handled by AIMasterSaga leaves taskMap empty and no session
\* running, every Worker terminated; and a session that is not running never
\* posts a note to its Worker again, nor runs again, whatever is still on its
\* noteChannel.
C4_GameOverSilences ==
    [][/\ (GameOver /\ masterPc = "running") =>
             /\ taskMap' = EmptyMap
             /\ \A i \in DOMAIN tasks' :
                   tasks'[i].status # "running" /\ tasks'[i].worker = "terminated"
       /\ \A i \in DOMAIN tasks :
             tasks[i].status # "running" =>
                /\ tasks'[i].posted = tasks[i].posted
                /\ tasks'[i].status = tasks[i].status]_vars

\* GAMEOVER cancelled two registered sessions, one with a note on its channel
C4_Witness ==
    /\ masterPc = "running"
    /\ taskMap = EmptyMap
    /\ Len(tasks) = 2
    /\ \A i \in DOMAIN tasks :
          /\ tasks[i].status = "cancelled"
          /\ HasTank(players, tanks, tasks[i].playerName)
    /\ \E i \in DOMAIN tasks : tasks[i].noteChannel # <<>>

\* C5: once AIMasterSaga has been cancelled no registered session is running
\* and the Worker of every registered session is terminated.
C5_MasterCancelCancelsSessions ==
    masterPc = "cancelled" =>
        \A p \in DOMAIN taskMap :
            /\ tasks[taskMap[p]].status # "running"
            /\ tasks[taskMap[p]].worker = "terminated"

\* C6: no identity stays registered whose session is no longer running: a
\* session ended by an unrecognized command is taken out of taskMap.
C6_AbortedIsUnregistered ==
    \A p \in DOMAIN taskMap : tasks[taskMap[p]].status = "running"

\* C7: LOAD_STAGE handled with an empty taskMap: from a non-empty pool one
\* session is created and registered, one ACTIVATE_PLAYER is put, for the new
\* name, and the pool has lost its first entry; from an empty pool nothing is
\* created and no name is allocated.
C7_LoadStageSpawnsOne ==
    [][\A pool \in Pools, spawnAt \in SpawnPositions :
         (LoadStage(pool, spawnAt) /\ masterPc = "running" /\ taskMap = EmptyMap) =>
            IF pool # <<>>
            THEN /\ Len(tasks') = Len(tasks) + 1
                 /\ tasks'[Len(tasks')].status = "running"
                 /\ tasks'[Len(tasks')].playerName = nextAIPlayerIndex
                 /\ taskMap' = Put(EmptyMap, nextAIPlayerIndex, Len(tasks'))
                 /\ Cardinality(DOMAIN taskMap') = 1
                 /\ activations' = activations + 1
                 /\ HasTank(players', tanks', nextAIPlayerIndex)
                 /\ Cardinality(DOMAIN tanks') = Cardinality(DOMAIN tanks) + 1
                 /\ remainingEnemies' = Tail(pool)
                 /\ nextAIPlayerIndex' = nextAIPlayerIndex + 1
            ELSE /\ tasks' = tasks
                 /\ taskMap' = EmptyMap
                 /\ activations' = activations
                 /\ players' = players
                 /\ remainingEnemies' = <<>>
                 /\ nextAIPlayerIndex' = nextAIPlayerIndex]_vars

\* the first LOAD_STAGE, of two basic enemies: one session, one left in the pool
C7_Witness ==
    /\ Len(tasks) = 1
    /\ tasks[1].status = "running"
    /\ taskMap = Put(EmptyMap, 0, 1)
    /\ activations = 1
    /\ nextAIPlayerIndex = 1
    /\ remainingEnemies = <<"basic">>
    /\ HasTank(players, tanks, 0)

\* ==== the claims about one session, checked under SpecSession ====

\* a poll of getAIInput by session s finds the tank present and no pending
\* direction that differs from the facing: the forward, if any, is carried on
ForwardPolled(s) ==
    /\ Running(s)
    /\ Present(s)
    /\ tasks[s].forwardLength > 0
    /\ ~(tasks[s].nextDirection # "null" /\ TankOf(s).direction # tasks[s].nextDirection)

ReachNote == [type |-> "reach"]

\* C8: while a forward of length L is carried on, a poll at which the tank has
\* moved less than L returns {forward, maxDistance = L - moved}, puts no note
\* and keeps L; the poll at which moved = L returns no intent, puts one reach
\* note and sets forwardLength to 0; no other step puts a note, and
\* forwardLength becomes positive again only by a forward command.
C8_ForwardThenOneReach ==
    [][\A s \in DOMAIN tasks :
         /\ \A step \in 0..MaxForward :
              (last'.op = "getAIInput" /\ ForwardPolled(s) /\ PollDirection(s, step)) =>
                 LET L == tasks[s].forwardLength
                     moved == MovedLength(tasks[s], TankOf(s))
                 IN /\ moved <= L
                    /\ moved < L =>
                         /\ last'.ret = [type |-> "forward", maxDistance |-> L - moved]
                         /\ tasks'[s].emitted = tasks[s].emitted
                         /\ tasks'[s].forwardLength = L
                    /\ moved = L =>
                         /\ last'.ret = NoIntent
                         /\ tasks'[s].noteChannel = Append(tasks[s].noteChannel, ReachNote)
                         /\ tasks'[s].emitted = tasks[s].emitted + 1
                         /\ tasks'[s].forwardLength = 0
         /\ (s \in DOMAIN tasks' /\ tasks'[s].emitted # tasks[s].emitted) =>
              /\ ForwardPolled(s)
              /\ MovedLength(tasks[s], TankOf(s)) = tasks[s].forwardLength
         /\ (s \in DOMAIN tasks' /\ tasks[s].forwardLength = 0
                                /\ tasks'[s].forwardLength > 0) =>
              \E c \in Commands :
                 c.type = "forward" /\ HandleCommand(s, c, NoReads)]_vars

\* a forward of MaxForward was carried out and the poll after it
\* reported reach
C8_Witness ==
    /\ last.op = "getAIInput"
    /\ last.ret = NoIntent
    /\ Running(last.who)
    /\ Present(last.who)
    /\ tasks[last.who].forwardLength = 0
    /\ tasks[last.who].noteChannel = <<ReachNote>>
    /\ MovedLength(tasks[last.who], TankOf(last.who)) = MaxForward

\* C9, as claimed: the first poll of getAIInput after a turn command that was
\* handled while a forward was in progress leaves forwardLength = 0, returns
\* no forward intent and puts no reach note, whatever the direction asked.
C9_TurnAlwaysClearsForward ==
    (last.op = "getAIInput" /\ last.hist = 1) =>
        /\ tasks[last.who].forwardLength = 0
        /\ last.ret.type # "forward"

\* C9, amended: at the first poll of getAIInput after a turn command handled
\* while a forward was in progress, if the tank is present and the pending
\* direction differs from its facing, the poll returns {turn, direction},
\* clears the pending direction, sets forwardLength to 0 and puts no note;
\* if the tank is present and the pending direction is its facing, the
\* forward is carried on and the direction stays pending.
C9_TurnToOtherDirectionClearsForward ==
    [][\A s \in DOMAIN tasks, step \in 0..MaxForward :
         (/\ last'.op = "getAIInput"
          /\ tasks[s].turnInForward = 1
          /\ Present(s)
          /\ PollDirection(s, step)) =>
            IF tasks[s].nextDirection # TankOf(s).direction
            THEN /\ tasks[s].nextDirection \in Directions
                 /\ last'.ret = [type |-> "turn", direction |-> tasks[s].nextDirection]
                 /\ tasks'[s].forwardLength = 0
                 /\ tasks'[s].nextDirection = "null"
                 /\ tasks'[s].emitted = tasks[s].emitted
            ELSE /\ last'.ret.type = "forward"
                 /\ tasks'[s].forwardLength = tasks[s].forwardLength
                 /\ tasks'[s].nextDirection = tasks[s].nextDirection]_vars

\* the poll after a turn command that interrupted a forward returned the turn
C9_Witness ==
    /\ last.op = "getAIInput"
    /\ last.hist = 1
    /\ last.ret.type = "turn"
    /\ tasks[last.who].forwardLength = 0
    /\ tasks[last.who].emitted = 0

\* C10: a poll of the fire callback returns true iff a fire command was
\* handled since the previous poll (or since the session started), however
\* many there were, and it leaves the flag reset.
C10_FireEdgeTriggered ==
    /\ last.op = "getFire" =>
          /\ last.ret.value = (last.hist > 0)
          /\ tasks[last.who].fire = FALSE
    /\ \A s \in DOMAIN tasks : tasks[s].fire = (tasks[s].fires > 0)

\* two fire commands, then a poll: one true
C10_Witness ==
    /\ last.op = "getFire"
    /\ last.hist = 2
    /\ last.ret.value = TRUE
    /\ tasks[last.who].fire = FALSE

\* ==== the claims about the turn commands, checked under SpecTurn ====

\* C11: a turn command leaves its own direction pending, whatever was pending
\* before it, so that after turn commands with no poll of getAIInput in
\* between the direction of the last one is pending; a poll that returns a
\* turn intent returns the pending direction, leaves none pending and turns
\* the tank to it; and the pending direction changes in no other step of a
\* running session.
C11_LastTurnWins ==
    [][\A s \in DOMAIN tasks :
         /\ \A c \in TurnCommands :
              HandleCommandLogged(s, c, NoReads) =>
                 tasks'[s].nextDirection = c.direction
         /\ (last'.op = "getAIInput" /\ last'.who = s /\ last'.ret.type = "turn") =>
              /\ last'.ret.direction = tasks[s].nextDirection
              /\ tasks'[s].nextDirection = "null"
              /\ playerTank(players', tanks', tasks[s].playerName).direction
                    = last'.ret.direction
         /\ (tasks'[s].status = "running"
               /\ tasks'[s].nextDirection # tasks[s].nextDirection) =>
              \/ last'.op = "command" /\ last'.who = s /\ last'.ret.type = "turn"
              \/ last'.op = "getAIInput" /\ last'.who = s /\ last'.ret.type = "turn"]_vars

\* a turn command has just replaced the direction left pending by another
C11_Witness ==
    /\ last.op = "command"
    /\ last.ret.type = "turn"
    /\ last.hist = 1
    /\ Running(last.who)
    /\ Present(last.who)
    /\ tasks[last.who].nextDirection = last.ret.direction
    /\ TankOf(last.who).direction # last.ret.direction

\* ==== the claims about the queries, checked under SpecQuery ====

MyFireInfo == [type |-> "query", query |-> "my-fire-info"]

\* the bullets of `bullets` that belong to tank `tankId`
Owned(bullets, tankId) == SelectSeq(bullets, LAMBDA b : b = tankId)

\* C12: a my-fire-info query handled with the tank present puts one note, a
\* query-result my-fire-info with the cooldown and the bulletLimit read from
\* the store, bulletCount = the number of bullets in flight that belong to
\* the tank, and canFire = bulletCount < bulletLimit /\ cooldown <= 0: false at
\* bulletCount = bulletLimit, true at cooldown = 0 with bulletCount below the
\* limit; and the session runs on.
C12_FireInfo ==
    [][(last'.op = "command" /\ last'.ret = MyFireInfo) =>
       \A s \in DOMAIN tasks, store \in StoreReads(tanks) :
         (Present(s) /\ HandleCommandLogged(s, MyFireInfo, store)) =>
            LET n == Len(Owned(store.bullets, TankOf(s).tankId))
                note == Head(SubSeq(tasks'[s].noteChannel,
                                    Len(tasks'[s].noteChannel),
                                    Len(tasks'[s].noteChannel)))
            IN /\ tasks'[s].status = "running"
               /\ tasks'[s].emitted = tasks[s].emitted + 1
               /\ tasks'[s].noteChannel = Append(tasks[s].noteChannel, note)
               /\ note.type = "query-result"
               /\ note.result.type = "my-fire-info"
               /\ note.result.cooldown = store.cooldown
               /\ note.result.bulletLimit = store.bulletLimit
               /\ note.result.bulletCount = n
               /\ note.result.canFire = (n < store.bulletLimit /\ store.cooldown <= 0)
               /\ n = store.bulletLimit => note.result.canFire = FALSE
               /\ (store.cooldown = 0 /\ n < store.bulletLimit) =>
                     note.result.canFire = TRUE]_vars

\* the query was answered with the tank at its bullet limit and no cooldown
\* left: it cannot fire
C12_Witness ==
    /\ last.op = "command"
    /\ last.ret = MyFireInfo
    /\ Running(last.who)
    /\ Present(last.who)
    /\ tasks[last.who].noteChannel =
          << [type |-> "query-result",
              result |-> [type |-> "my-fire-info", bulletCount |-> MaxBulletLimit,
                          canFire |-> FALSE, cooldown |-> 0,
                          bulletLimit |-> MaxBulletLimit]] >>

\* C13: a command of any type handled by a running session whose player has
\* no tank leaves the session running, and a forward command then leaves
\* forwardLength and startPos as they were.
C13_AbsentIsBenign ==
    [][\A s \in DOMAIN tasks :
         (/\ last'.op = "command"
          /\ last'.who = s
          /\ last'.ret.type \in {"forward", "fire", "turn", "query"}
          /\ Running(s)
          /\ ~Present(s)) =>
            /\ tasks'[s].status = "running"
            /\ last'.ret.type = "forward" =>
                  /\ tasks'[s].forwardLength = tasks[s].forwardLength
                  /\ tasks'[s].startPos = tasks[s].startPos]_vars

\* ==== the claims about the notes, checked under SpecNotes ====

\* the notes of session t in the order they were put: those posted to the
\* Worker, then those still on noteChannel
NoteLog(t) == t.posted \o t.noteChannel

C15_SpawnOrder ==
    /\ activations <= Len(tasks)
    /\ Len(tasks) <= nextTankId - 1
    /\ nextTankId - 1 <= nextAIPlayerIndex
    /\ \A i \in DOMAIN tasks :
          /\ tasks[i].playerName = i - 1
          /\ tasks[i].playerName \in DOMAIN players
          /\ tasks[i].status = "running" => Registered(i)
    /\ \A p \in DOMAIN players :
          players[p].activeTankId # NoTank =>
             \E i \in DOMAIN tasks : tasks[i].playerName = p
    /\ masterPc = "running" =>
          /\ activations = Len(tasks)
          /\ Len(tasks) = nextTankId - 1
          /\ nextTankId - 1 = nextAIPlayerIndex
          /\ \A p \in DOMAIN players :
                HasTank(players, tanks, p) =>
                   /\ p \in DOMAIN taskMap
                   /\ tasks[taskMap[p]].status = "running"

\* the new session has been started and registered and has answered a poll
\* of getAIInput, its tank created, while ACTIVATE_PLAYER is still to be put
C15_Witness ==
    /\ masterPc = "session-started"
    /\ last.op = "getAIInput"
    /\ last.who = Len(tasks)
    /\ Registered(Len(tasks))
    /\ NewTankId \in DOMAIN tanks
    /\ players[NewPlayerName].activeTankId = NoTank
    /\ activations = Len(tasks) - 1

\* ==== more claims about the supervision, checked under Spec ====

\* C16: a KILL of an AI tank taken by AIMasterSaga finds the player of the
\* tank in taskMap, also after a GAMEOVER has emptied taskMap, and
\* AIMasterSaga does not fail on it.
C16_KillFindsHandle ==
    [][\A p \in DOMAIN players, spawnAt \in SpawnPositions :
         (masterPc = "running" /\ KillAI(p, spawnAt)) =>
            /\ p \in DOMAIN taskMap
            /\ masterPc' = "running"]_vars

\* C17: nextAIPlayerIndex never decreases, whatever the event, GAMEOVER and
\* a later LOAD_STAGE included; the names given out by a step are the values
\* the counter passes, one per enemy taken from the pool, so no name is given
\* twice and no two sessions have the same name; and an addAI that finds the
\* pool empty gives out no name.
C17_NamesNeverReused ==
    [][/\ nextAIPlayerIndex' >= nextAIPlayerIndex
       /\ DOMAIN players = 0..(nextAIPlayerIndex - 1)
       /\ DOMAIN players' = DOMAIN players \cup (nextAIPlayerIndex..(nextAIPlayerIndex' - 1))
       /\ Len(tasks') = Len(tasks) + (nextAIPlayerIndex' - nextAIPlayerIndex)
       /\ \A i \in DOMAIN tasks' : tasks'[i].playerName = i - 1
       /\ \A i, j \in DOMAIN tasks' :
             tasks'[i].playerName = tasks'[j].playerName => i = j
       /\ \A p \in DOMAIN players, spawnAt \in SpawnPositions :
             (remainingEnemies = <<>> /\ KillAI(p, spawnAt)) =>
                nextAIPlayerIndex' = nextAIPlayerIndex
       /\ \A spawnAt \in SpawnPositions :
             LoadStage(<<>>, spawnAt) => nextAIPlayerIndex' = nextAIPlayerIndex
       /\ GameOver => nextAIPlayerIndex' = nextAIPlayerIndex]_vars

\* LOAD_STAGE, GAMEOVER, LOAD_STAGE: the second stage's session is AI-1's,
\* while AI-0, cancelled by the GAMEOVER, still has its tank
C17_Witness ==
    /\ masterPc = "running"
    /\ nextAIPlayerIndex = 2
    /\ Len(tasks) = 2
    /\ tasks[1].status = "cancelled"
    /\ HasTank(players, tanks, tasks[1].playerName)
    /\ tasks[2].status = "running"
    /\ tasks[2].playerName = 1
    /\ DOMAIN taskMap = {1}

\* ==== the claim about the bullet watcher, checked under SpecWatcher ====

BulletComplete == [type |-> "bullet-complete"]

\* C18: on a DESTROY_BULLETS the watcher of a running session puts one
\* bullet-complete note if the player has a tank and the batch holds at least
\* one bullet of that tank, however many, and no note otherwise; it leaves
\* nextDirection, forwardLength, startPos and fire as they were, and the
\* session running.
C18_OneNotePerBatch ==
    [][last'.op = "DESTROY_BULLETS" =>
       \A s \in DOMAIN tasks :
          Running(s) =>
             LET mine == Owned(last'.ret.bullets, TankOrNone(s).tankId)
             IN /\ IF Present(s) /\ mine # <<>>
                   THEN /\ tasks'[s].noteChannel =
                             Append(tasks[s].noteChannel, BulletComplete)
                        /\ tasks'[s].emitted = tasks[s].emitted + 1
                   ELSE /\ tasks'[s].noteChannel = tasks[s].noteChannel
                        /\ tasks'[s].emitted = tasks[s].emitted
                /\ tasks'[s].posted = tasks[s].posted
                /\ tasks'[s].nextDirection = tasks[s].nextDirection
                /\ tasks'[s].forwardLength = tasks[s].forwardLength
                /\ tasks'[s].startPos = tasks[s].startPos
                /\ tasks'[s].fire = tasks[s].fire
                /\ tasks'[s].status = "running"]_vars

\* a batch with MaxBatch bullets of the tank was answered by one note, with a
\* direction pending, a forward in progress and a fire requested
C18_Witness ==
    /\ last.op = "DESTROY_BULLETS"
    /\ \E s \in DOMAIN tasks :
          /\ Running(s)
          /\ Present(s)
          /\ Len(Owned(last.ret.bullets, TankOf(s).tankId)) = MaxBatch
          /\ tasks[s].noteChannel = << BulletComplete >>
          /\ tasks[s].emitted = 1
          /\ tasks[s].nextDirection # "null"
          /\ tasks[s].forwardLength > 0
          /\ tasks[s].fire

\* ==== the claim about the completion of a forward, checked under SpecForward ====

\* C19: a forward command accepted with the tank present, and superseded by
\* no later turn or forward command, is answered by a reach note, also when
\* a turn command handled before it is still pending.
C19_ForwardReaches ==
    \A n \in 0..MaxNotes :
        (/\ last.op = "command"
         /\ last.ret.type = "forward"
         /\ tasks[max].emitted = n)
        ~> (tasks[max].emitted > n)

\* ==== one more claim about the supervision, checked under Spec ====

\* C20: taskMap never holds more than `max` sessions, whatever the sequence
\* of LOAD_STAGE, KILL and GAMEOVER, a LOAD_STAGE taken while a session is
\* registered included.
C20_RegistryAtMostMax == Cardinality(DOMAIN taskMap) <= max

====
